---- MODULE Spec2Model ----
(***************************************************************************)
(* Payment reconciliation core of the IFRI e-learning platform             *)
(* (src/e_learning_app/views.py): enrollment, transaction initiation,      *)
(* the user-return callback, the signed gateway webhook and the manager's  *)
(* manual payment update, over the Enrollment and Payment tables of        *)
(* src/e_learning_app/models.py.                                           *)
(*                                                                         *)
(* Every `await` of a handler is a point where another request may run,    *)
(* so a handler is a sequence of steps, one per database or gateway call.  *)
(* A Django save() writes the whole in-memory row back under its primary   *)
(* key.                                                                    *)
(***************************************************************************)
EXTENDS Integers, Sequences, FiniteSets, TLC

VARIABLES enrollments, payments, gateway, session, procs, last

vars == <<enrollments, payments, gateway, session, procs, last>>

(***************************************************************************)
(* Bounds of the model.                                                    *)
(***************************************************************************)
\* Number of transactions the platform may create at the gateway.
MaxTx == 1

(***************************************************************************)
(* Users, courses.                                                         *)
(***************************************************************************)
Students == {"s1", "s2"}
Users == Students \cup {"m1"}
user_type(u) == IF u \in Students THEN "student" ELSE "manager"
Courses == {"c1"}
\* A course whose fee has a fractional part.
FractionalCourses == {"c2"}
\* The active courses of the catalogue.
Catalogue == Courses \cup FractionalCourses
\* Course.fee, DecimalField with two decimal places, held in hundredths.
CourseFee(c) == IF c \in FractionalCourses THEN 500050 ELSE 500000
\* The handlers that may be in flight at once; payment initiations run on
\* the first only (at most one initiation in flight).
Handlers == {"h1", "h2"}
PayHandlers == {"h1"}

(***************************************************************************)
(* Text values.  A piece of text is a record: a decimal number written     *)
(* with an optional sign and leading zeros, a 64-character hex digest      *)
(* (the HMAC it renders, and its letter case), a key name, text holding a  *)
(* non-ASCII character, other text, or the empty string.  None is the      *)
(* Python None.                                                            *)
(***************************************************************************)
None == [kind |-> "none"]
EmptyText == [kind |-> "empty"]
JunkText == [kind |-> "junk"]
NonAsciiText == [kind |-> "nonascii"]
KeyText(n) == [kind |-> "key", name |-> n]
NumText(sign, zeros, val) == [kind |-> "num", sign |-> sign, zeros |-> zeros, val |-> val]
HexText(mac, upper) == [kind |-> "hex", mac |-> mac, upper |-> upper]

\* Python truthiness of a str-or-None value.
Truthy(t) == t.kind \notin {"none", "empty"}
\* a or b
Or(a, b) == IF Truthy(a) THEN a ELSE b
\* str(n) of an int.
Str(n) == IF n < 0 THEN NumText("-", 0, 0 - n) ELSE NumText("", 0, n)
\* int(text) succeeds
IsInt(t) == t.kind = "num"
\* int(text)
IntOf(t) == IF t.sign = "-" THEN 0 - t.val ELSE t.val
\* text.lower()
Lower(t) == IF t.kind = "hex" THEN [t EXCEPT !.upper = FALSE] ELSE t

(***************************************************************************)
(* Request bodies.  A JSON event carries name, status, id and an entity    *)
(* with status and id; an absent string is "" and an absent id is 0, which *)
(* the handler's `or` chains treat like None.  A body that is not UTF-8    *)
(* has kind "binary".                                                      *)
(***************************************************************************)
Event(name, status, id, estatus, eid) ==
    [kind |-> "json", name |-> name, status |-> status, id |-> id,
     entity |-> [status |-> estatus, id |-> eid]]
BinaryBody == [kind |-> "binary"]
ApprovedEvent(x) == Event("transaction.approved", "", 0, "approved", x)
DeclinedEvent(x) == Event("transaction.declined", "", 0, "declined", x)
RefundedEvent(x) == Event("transaction.refunded", "", 0, "refunded", x)

(***************************************************************************)
(* The x-fedapay-signature header: absent, or the list of its parts after  *)
(* re.split(r"[;,]") and partition("="), each a key and a value.  The      *)
(* empty header has no parts.                                              *)
(***************************************************************************)
NoHeader == [present |-> FALSE, parts |-> <<>>]
Header(parts) == [present |-> TRUE, parts |-> parts]
Part(k, v) == [key |-> k, value |-> v]
KeyT == KeyText("t")
KeyV1 == KeyText("v1")
KeyV0 == KeyText("v0")

\* re.search(r"[0-9a-fA-F]{64}", header): the first digest in the raw text.
RECURSIVE FirstHex(_)
FirstHex(parts) ==
    IF parts = <<>> THEN None
    ELSE IF Head(parts).key.kind = "hex" THEN Head(parts).key
    ELSE IF Head(parts).value.kind = "hex" THEN Head(parts).value
    ELSE FirstHex(Tail(parts))

\* One turn of the loop over the parts; acc is (timestamp, signature_v1).
ParsePart(acc, p) ==
    IF p.key = KeyT THEN [acc EXCEPT !.timestamp = p.value]
    ELSE IF p.key = KeyV1 THEN [acc EXCEPT !.signature_v1 = p.value]
    ELSE IF p.key = KeyV0 /\ ~Truthy(acc.signature_v1)
         THEN [acc EXCEPT !.signature_v1 = p.value]
    ELSE IF Truthy(p.key) /\ Truthy(p.value) /\ p.key # KeyT /\ ~Truthy(acc.signature_v1)
         THEN [acc EXCEPT !.signature_v1 = p.value]
    ELSE acc

RECURSIVE ParseParts(_, _)
ParseParts(acc, parts) ==
    IF parts = <<>> THEN acc
    ELSE ParseParts(ParsePart(acc, Head(parts)), Tail(parts))

_parse_fedapay_signature_header(h) ==
    IF ~h.present \/ h.parts = <<>>
    THEN [timestamp |-> None, signature_v1 |-> None]
    ELSE LET r == ParseParts([timestamp |-> None, signature_v1 |-> None], h.parts)
         IN  IF Truthy(r.signature_v1) THEN r
             ELSE [r EXCEPT !.signature_v1 = FirstHex(h.parts)]

\* HMAC-SHA256 as a collision-free function of its key and message.
Hmac(secret, msg) == [key |-> secret, msg |-> msg]

\* Variant: the timestamp is left out of the signed text.
ComputeIgnoringTimestamp(payload, timestamp, secret) ==
    IF payload.kind = "binary" THEN None
    ELSE HexText(Hmac(secret, <<Str(0), payload>>), FALSE)

_compute_fedapay_signature(payload, timestamp, secret) ==
    IF payload.kind = "binary" THEN None
    ELSE HexText(Hmac(secret, <<Str(timestamp), payload>>), FALSE)

\* hmac.compare_digest on two str: TypeError unless both are ASCII.
compare_digest(a, b) ==
    IF a.kind = "nonascii" \/ b.kind = "nonascii" THEN "TypeError"
    ELSE IF a = b THEN "True" ELSE "False"

\* os.getenv('FEDAPAY_AUTH_KEY', '')
FEDAPAY_AUTH_KEY == "whsec"
\* Variant: the configured key is used as it stands.
StripNothing(s) == s

\* str.strip() of the configured key
Strip(s) == IF s \in {"", " "} THEN "" ELSE s

\* Variant: the header is parsed but the digests are never compared.
VerifyWithoutCompare(payload, signature_header) ==
    LET parsed == _parse_fedapay_signature_header(signature_header)
    IN  IF Truthy(parsed.timestamp) /\ Truthy(parsed.signature_v1) /\ IsInt(parsed.timestamp)
        THEN "True" ELSE "False"

\* The process environment as the call finds it: the variable set to a
\* value, or not set.
Environ(value) == [set |-> TRUE, value |-> value]
NoEnviron == [set |-> FALSE, value |-> ""]
\* os.getenv(name, default)
Getenv(env, default) == IF env.set THEN env.value ELSE default

\* The function under the environment env; it reads the key at every call.
verify_signature_with_env(env, payload, signature_header) ==
    LET webhook_secret == Strip(Getenv(env, ""))
        parsed == _parse_fedapay_signature_header(signature_header)
    IN  IF webhook_secret = "" \/ ~signature_header.present
           \/ signature_header.parts = <<>> THEN "False"
        ELSE IF ~Truthy(parsed.timestamp) \/ ~Truthy(parsed.signature_v1) THEN "False"
        ELSE IF ~IsInt(parsed.timestamp) THEN "False"
        ELSE LET computed_hash ==
                   _compute_fedapay_signature(payload, IntOf(parsed.timestamp),
                                              webhook_secret)
             IN  IF ~Truthy(computed_hash) THEN "False"
                 ELSE compare_digest(Lower(computed_hash), Lower(parsed.signature_v1))

verify_signature_fedapay_v1(payload, signature_header) ==
    verify_signature_with_env(Environ(FEDAPAY_AUTH_KEY), payload, signature_header)

(***************************************************************************)
(* The payment gateway (external collaborator).  A transaction created by  *)
(* the platform is gateway[x]; ForeignTx is an approved transaction of the *)
(* same merchant account that the platform did not create.  The gateway    *)
(* signs each event it emits with the shared webhook secret.               *)
(***************************************************************************)
ForeignTx == MaxTx + 1
TxIds == 1 .. (MaxTx + 1)

GatewayKnows(gw, x) == x = ForeignTx \/ x \in DOMAIN gw
GatewayStatus(gw, x) == IF x = ForeignTx THEN "approved" ELSE gw[x].status

\* What the connector hands back for a transaction: None, a dict, or an
\* object; the status sits at the top, under data, or only in model_dump().
\* An absent status is "".
TxNone == [shape |-> "none"]
TxDict(status, data_status) ==
    [shape |-> "dict", status |-> status, data_status |-> data_status]
TxObject(status, data, data_status, dump_status) ==
    [shape |-> "object", status |-> status, data |-> data,
     data_status |-> data_status, dump_status |-> dump_status]

\* The words under which the gateway's API may report a transaction's state
\* when its vocabulary is not normalised: a paid transaction is reported as
\* approved, completed or success.
StatusTexts(st) ==
    IF st = "approved" THEN {"approved", "completed", "success"} ELSE {st}

TxShapes(t) ==
    {TxNone,
     TxDict(t, ""), TxDict("", t),
     TxObject(t, "none", "", ""),
     TxObject("", "dict", t, ""),
     TxObject("", "object", t, ""),
     TxObject("", "none", "", t)}

\* service.get_transaction_by_fedapay_id(str(tx_id)): the possible results,
\* a transaction in one of its shapes, or an exception for an id the
\* gateway does not know.
get_transaction_by_fedapay_id(gw, id) ==
    IF IsInt(id) /\ GatewayKnows(gw, IntOf(id))
    THEN {[raised |-> FALSE, tx |-> tx] : tx \in TxShapes(GatewayStatus(gw, IntOf(id)))}
    ELSE {[raised |-> TRUE, tx |-> TxNone]}
\* ... from a gateway that reports the state under any of its words
GetTransactionAnyWord(gw, id) ==
    IF IsInt(id) /\ GatewayKnows(gw, IntOf(id))
    THEN {[raised |-> FALSE, tx |-> TxDict(t, "")] :
             t \in StatusTexts(GatewayStatus(gw, IntOf(id)))}
    ELSE {[raised |-> TRUE, tx |-> TxNone]}

\* _extract_fedapay_status(tx) of the value the connector returns
_extract_fedapay_status(tx) ==
    IF tx.shape = "none" THEN ""
    ELSE IF tx.shape = "dict"
         THEN IF tx.status # "" THEN tx.status ELSE tx.data_status
    ELSE IF tx.status # "" THEN tx.status
    ELSE IF tx.data \in {"dict", "object"} THEN tx.data_status
    ELSE tx.dump_status

\* Unix time at which the gateway signs the event of transaction x.
EventTime(x) == 1700000000 + x

SignedHeader(body, ts) ==
    Header(<<Part(KeyT, Str(ts)),
             Part(KeyV1, HexText(Hmac(FEDAPAY_AUTH_KEY, <<Str(ts), body>>), FALSE))>>)

\* The events the gateway has emitted, each with its signature header.
Emitted(gw) ==
    {[body |-> ApprovedEvent(x), header |-> SignedHeader(ApprovedEvent(x), EventTime(x))] :
        x \in {y \in TxIds : GatewayKnows(gw, y)
                                /\ GatewayStatus(gw, y) \in {"approved", "refunded"}}}
    \cup
    {[body |-> RefundedEvent(x), header |-> SignedHeader(RefundedEvent(x), EventTime(x))] :
        x \in {y \in TxIds : GatewayKnows(gw, y) /\ GatewayStatus(gw, y) = "refunded"}}
    \cup
    {[body |-> DeclinedEvent(x), header |-> SignedHeader(DeclinedEvent(x), EventTime(x))] :
        x \in {y \in TxIds : GatewayKnows(gw, y) /\ GatewayStatus(gw, y) = "declined"}}

(***************************************************************************)
(* Responses.                                                              *)
(***************************************************************************)
JsonResponse(status, code) == [code |-> code, status |-> status, to |-> ""]
Redirect(to) == [code |-> 302, status |-> "", to |-> to]
RedirectError(to) == [code |-> 302, status |-> "error", to |-> to]
RedirectSuccess(to) == [code |-> 302, status |-> "success", to |-> to]
Http404 == [code |-> 404, status |-> "", to |-> ""]
\* An exception that leaves the view: the framework answers 500.
Unhandled(exc) == [code |-> 500, status |-> exc, to |-> ""]

(***************************************************************************)
(* Database helpers.                                                       *)
(***************************************************************************)
\* Payment.objects.filter(transaction_id=t): primary keys, in order.
PaymentsWith(pays, t) == {i \in DOMAIN pays : pays[i].transaction_id = t}
Min(S) == CHOOSE i \in S : \A j \in S : i <= j
\* Model.save(): the whole in-memory row is written under its primary key.
Save(table, pk, obj) == [table EXCEPT ![pk] = obj]

\* enroll.save(): every column of the row is written; completed_lessons is
\* a many-to-many relation held in its own table, which save() leaves alone.
SaveEnrollment(table, pk, obj) ==
    [table EXCEPT ![pk] = [obj EXCEPT !.completed_lessons = table[pk].completed_lessons]]

Idle == [pc |-> "idle"]
NoLast == [kind |-> "none"]

Init ==
    /\ enrollments = <<>>
    /\ payments = <<>>
    /\ gateway = <<>>
    /\ session = [u \in Users |-> [last_fedapay_tx_id |-> None, last_enrollment_id |-> 0]]
    /\ procs = [h \in Handlers |-> Idle]
    /\ last = NoLast

(***************************************************************************)
(* student_enroll_course: a student without an Enrollment for the course   *)
(* gets one, pending.  The early returns change nothing.                   *)
(***************************************************************************)
\* Enrollment.objects.create(student, course, status='pending'): progress 0,
\* no completed lesson.
NewEnrollment(u, c) ==
    [student |-> u, course |-> c, status |-> "pending", progress_percentage |-> 0,
     completed_lessons |-> {}]

student_enroll_course(u, c) ==
    /\ user_type(u) = "student"
    /\ c \in Catalogue
    /\ ~\E i \in DOMAIN enrollments :
            enrollments[i].student = u /\ enrollments[i].course = c
    /\ enrollments' = Append(enrollments, NewEnrollment(u, c))
    /\ UNCHANGED <<payments, gateway, session, procs, last>>

\* The same view as the steps two workers may interleave: the existence
\* check, then the insert.
EnrollCheck(h, u, c) ==
    /\ procs[h] = Idle
    /\ user_type(u) = "student"
    /\ c \in Catalogue
    /\ ~\E i \in DOMAIN enrollments :
            enrollments[i].student = u /\ enrollments[i].course = c
    /\ procs' = [procs EXCEPT ![h] = [pc |-> "en_create", user |-> u, course |-> c]]
    /\ UNCHANGED <<enrollments, payments, gateway, session, last>>

\* Variant: the table has no uniqueness constraint.
UniqueTogetherAbsent(table, u, c) == TRUE

\* Enrollment.Meta.unique_together = ('student', 'course'): the insert of a
\* second row for the pair is refused by the database.
UniqueTogether(table, u, c) ==
    ~\E i \in DOMAIN table : table[i].student = u /\ table[i].course = c

EnrollLast(h, resp) ==
    [kind |-> "enroll", user |-> procs[h].user, course |-> procs[h].course, resp |-> resp]

\* Enrollment.objects.create(student, course, status='pending'); redirect
EnrollCreate(h) ==
    /\ procs[h].pc = "en_create"
    /\ UniqueTogether(enrollments, procs[h].user, procs[h].course)
    /\ enrollments' = Append(enrollments, NewEnrollment(procs[h].user, procs[h].course))
    /\ last' = EnrollLast(h, Redirect("student_make_payment"))
    /\ procs' = [procs EXCEPT ![h] = Idle]
    /\ UNCHANGED <<payments, gateway, session>>

\* ... raises IntegrityError, which nothing in the view catches.
EnrollCreateFails(h) ==
    /\ procs[h].pc = "en_create"
    /\ ~UniqueTogether(enrollments, procs[h].user, procs[h].course)
    /\ last' = EnrollLast(h, Unhandled("IntegrityError"))
    /\ procs' = [procs EXCEPT ![h] = Idle]
    /\ UNCHANGED <<enrollments, payments, gateway, session>>

(***************************************************************************)
(* student_make_payment (POST).                                            *)
(***************************************************************************)
\* What get_transaction_link may return: a dict or a TransactionToken object
\* with the fields url, payment_link and link ("" when absent).
Token(shape, url, payment_link, link) ==
    [shape |-> shape, url |-> url, payment_link |-> payment_link, link |-> link]
PayUrl(x) == [kind |-> "url", tx |-> x]
\* A second address of the same hosted page, under another field.
AltUrl(x) == [kind |-> "alturl", tx |-> x]
NoToken == [shape |-> "none"]
LinkResponses(x) ==
    {Token("dict", PayUrl(x), EmptyText, EmptyText),
     Token("dict", EmptyText, EmptyText, EmptyText),
     Token("dict", EmptyText, AltUrl(x), PayUrl(x)),
     Token("dict", PayUrl(x), AltUrl(x), EmptyText),
     Token("object", PayUrl(x), AltUrl(x), EmptyText),
     Token("object", EmptyText, EmptyText, PayUrl(x)),
     Token("object", EmptyText, EmptyText, EmptyText)}

\* The redirect URL taken from the token (steps 5 and 6 of the view).
ResolveRedirect(token_data) ==
    IF token_data.shape = "dict"
    THEN Or(token_data.url, Or(token_data.payment_link, token_data.link))
    ELSE Or(Or(token_data.payment_link, Or(token_data.url, token_data.link)),
            Or(token_data.url, Or(token_data.payment_link, token_data.link)))

\* What a run of the view did: the response, the gateway calls it made, the
\* link response it was given and the exception its `except` caught.
PayLast(h, resp, token_data, raised) ==
    [kind |-> "pay", user |-> procs[h].user, enrollment |-> procs[h].enrollment,
     tx |-> procs[h].tx, resp |-> resp, calls |-> 2, token |-> token_data,
     raised |-> raised]

\* Variant: the Enrollment is looked up by id alone.
OwnedByAnyone(eid, u) == eid \in DOMAIN enrollments

\* get_object_or_404(Enrollment, id=enrollment_id, student=request.user) finds a row
OwnedBy(eid, u) == eid \in DOMAIN enrollments /\ enrollments[eid].student = u

\* get_object_or_404(Enrollment, id=enrollment_id, student=request.user) fails.
PayNotFound(h, u, eid) ==
    /\ procs[h] = Idle
    /\ ~OwnedBy(eid, u)
    /\ last' = [kind |-> "pay", user |-> u, enrollment |-> eid, tx |-> 0,
                resp |-> Http404, calls |-> 0, token |-> NoToken, raised |-> "Http404"]
    /\ UNCHANGED <<enrollments, payments, gateway, session, procs>>

\* Variant: the call is made a second time before giving up.
PayCreateFailsRetrying(h, u, eid) ==
    /\ procs[h] = Idle
    /\ OwnedBy(eid, u)
    /\ last' = [kind |-> "pay", user |-> u, enrollment |-> eid, tx |-> 0,
                resp |-> RedirectError("student_dashboard"), calls |-> 2,
                token |-> NoToken, raised |-> "create_transaction"]
    /\ UNCHANGED <<enrollments, payments, gateway, session, procs>>

\* service.create_transaction raises: error message, back to the dashboard.
PayCreateFails(h, u, eid) ==
    /\ procs[h] = Idle
    /\ OwnedBy(eid, u)
    /\ last' = [kind |-> "pay", user |-> u, enrollment |-> eid, tx |-> 0,
                resp |-> RedirectError("student_dashboard"), calls |-> 1,
                token |-> NoToken, raised |-> "create_transaction"]
    /\ UNCHANGED <<enrollments, payments, gateway, session, procs>>

\* service.create_transaction(..., montant_paiement=int(course.fee), ...)
PayCreateTx(h, u, eid) ==
    /\ procs[h] = Idle
    /\ OwnedBy(eid, u)
    /\ Len(gateway) < MaxTx
    /\ LET fee == CourseFee(enrollments[eid].course)
       IN  /\ gateway' = Append(gateway, [amount |-> fee \div 100,
                                          status |-> "pending", linked |-> FALSE,
                                          delivered |-> FALSE])
           /\ procs' = [procs EXCEPT ![h] =
                 [pc |-> "mp_create_payment", user |-> u, enrollment |-> eid,
                  fee |-> fee, tx |-> Len(gateway) + 1]]
    /\ UNCHANGED <<enrollments, payments, session, last>>

\* Payment.objects.create(enrollment, amount=course.fee, transaction_id, 'pending')
\* Variant: the row records the whole-unit amount sent to the gateway.
NewPaymentGatewayAmount(enrollment, amount, new_tx_id) ==
    [enrollment |-> enrollment, amount |-> amount \div 100,
     transaction_id |-> Str(new_tx_id), status |-> "pending"]

NewPayment(enrollment, amount, new_tx_id) ==
    [enrollment |-> enrollment, amount |-> amount,
     transaction_id |-> Str(new_tx_id), status |-> "pending"]

PayCreatePayment(h) ==
    /\ procs[h].pc = "mp_create_payment"
    /\ payments' = Append(payments,
            NewPayment(procs[h].enrollment, procs[h].fee, procs[h].tx))
    /\ procs' = [procs EXCEPT ![h].pc = "mp_session"]
    /\ UNCHANGED <<enrollments, gateway, session, last>>

\* request.session['last_fedapay_tx_id'], ['last_enrollment_id']
PaySetSession(h) ==
    /\ procs[h].pc = "mp_session"
    /\ session' = [session EXCEPT ![procs[h].user] =
            [last_fedapay_tx_id |-> Str(procs[h].tx),
             last_enrollment_id |-> procs[h].enrollment]]
    /\ procs' = [procs EXCEPT ![h].pc = "mp_link"]
    /\ UNCHANGED <<enrollments, payments, gateway, last>>

\* service.get_transaction_link returns token_data with a recognised URL.
PayRedirect(h, token_data) ==
    /\ procs[h].pc = "mp_link"
    /\ Truthy(ResolveRedirect(token_data))
    /\ gateway' = [gateway EXCEPT ![procs[h].tx].linked = TRUE]
    /\ last' = PayLast(h, Redirect(ResolveRedirect(token_data)), token_data, "")
    /\ procs' = [procs EXCEPT ![h] = Idle]
    /\ UNCHANGED <<enrollments, payments, session>>

\* get_transaction_link raises, or no URL is recognised (AttributeError).
PayLinkFails(h, token_data) ==
    /\ procs[h].pc = "mp_link"
    /\ ~Truthy(ResolveRedirect(token_data))
    /\ last' = PayLast(h, RedirectError("student_dashboard"), token_data, "AttributeError")
    /\ procs' = [procs EXCEPT ![h] = Idle]
    /\ UNCHANGED <<enrollments, payments, gateway, session>>

(***************************************************************************)
(* The payer, on the gateway's hosted page.                                *)
(***************************************************************************)
GatewaySettle(x, status) ==
    /\ x \in DOMAIN gateway
    /\ gateway[x].linked
    /\ gateway[x].status = "pending"
    /\ gateway' = [gateway EXCEPT ![x].status = status]
    /\ UNCHANGED <<enrollments, payments, session, procs, last>>

\* The gateway reverses a paid transaction (refund after approval).
GatewayRefund(x) ==
    /\ x \in DOMAIN gateway
    /\ gateway[x].status = "approved"
    /\ gateway' = [gateway EXCEPT ![x].status = "refunded"]
    /\ UNCHANGED <<enrollments, payments, session, procs, last>>

(***************************************************************************)
(* Reconciliation steps shared in shape by callback and webhook: the       *)
(* handler holds the Payment it read, with status already set in memory.   *)
(***************************************************************************)
\* payment.status = 'completed' on the row read under primary key pk
\* Variant: a Payment found already completed is flagged as a duplicate.
MarkCompletedRejectingDuplicate(payment) ==
    [payment EXCEPT !.status = IF payment.status = "completed" THEN "failed"
                                ELSE "completed"]
\* Variant: the status is left as read.
MarkCompletedForgotten(payment) == payment

MarkCompleted(payment) == [payment EXCEPT !.status = "completed"]
\* Variant: the Enrollment is saved as read.
MarkActiveForgotten(enroll) == enroll

\* enroll.status = 'active'
MarkActive(enroll) == [enroll EXCEPT !.status = "active"]

\* Variant: the handler moves on without writing the Payment.
SavePaymentSkipped(h, from, to) ==
    /\ procs[h].pc = from
    /\ procs' = [procs EXCEPT ![h].pc = to]
    /\ UNCHANGED <<enrollments, payments, gateway, session, last>>

\* await sync_to_async(payment.save)()
SavePayment(h, from, to) ==
    /\ procs[h].pc = from
    /\ payments' = Save(payments, procs[h].pk, procs[h].payment)
    /\ procs' = [procs EXCEPT ![h].pc = to]
    /\ UNCHANGED <<enrollments, gateway, session, last>>

\* enroll = await sync_to_async(lambda: payment.enrollment)(); enroll.status = 'active'
ReadEnrollment(h, from, to) ==
    /\ procs[h].pc = from
    /\ procs' = [procs EXCEPT ![h].pc = to,
                              ![h].enroll = MarkActive(enrollments[procs[h].payment.enrollment])]
    /\ UNCHANGED <<enrollments, payments, gateway, session, last>>

(***************************************************************************)
(* fedapay_callback (GET).                                                 *)
(***************************************************************************)
CallbackResponse == RedirectSuccess("student_view_courses")
\* Variant: the exception leaves the view.
CallbackExceptPropagates(exc) == Unhandled(exc)

\* except Exception as err: logged; the view goes on to its message and redirect
CallbackExcept(exc) == CallbackResponse
\* Variant: only the gateway's own word is accepted.
SuccessStatusesApprovedOnly == {"approved"}

\* if status in ['approved', 'completed', 'success']
SuccessStatuses == {"approved", "completed", "success"}

\* request.GET: the four query parameters the view reads (None when absent).
Query(id, transaction_id, trans_id, transaction) ==
    [id |-> id, transaction_id |-> transaction_id, trans_id |-> trans_id,
     transaction |-> transaction]
\* tx_id = GET.get('id') or .get('transaction_id') or .get('trans_id')
\*         or .get('transaction'), else session.get('last_fedapay_tx_id')
CallbackTxId(param, u) ==
    Or(Or(param.id, Or(param.transaction_id, Or(param.trans_id, param.transaction))),
       session[u].last_fedapay_tx_id)

\* The gateway is asked only when there is a transaction id.
NotAsked == [raised |-> FALSE, tx |-> TxNone]
CallbackAnswers(param, u) ==
    IF Truthy(CallbackTxId(param, u))
    THEN get_transaction_by_fedapay_id(gateway, CallbackTxId(param, u))
    ELSE {NotAsked}
CallbackAnswersAnyWord(param, u) ==
    IF Truthy(CallbackTxId(param, u))
    THEN GetTransactionAnyWord(gateway, CallbackTxId(param, u))
    ELSE {NotAsked}

\* The status check reaches the saves: an id, no gateway error, a status of
\* the allow-list, and a Payment with that transaction id.
CallbackReconciles(param, u, ans) ==
    LET tx_id == CallbackTxId(param, u)
    IN  /\ Truthy(tx_id)
        /\ ~ans.raised
        /\ _extract_fedapay_status(ans.tx) \in SuccessStatuses
        /\ PaymentsWith(payments, tx_id) # {}

\* What a run of the callback did: the id it resolved, whether the gateway
\* call raised, the status it extracted, and the response.
CallbackLast(tx_id, raised, status, resp) ==
    [kind |-> "callback", tx_id |-> tx_id, raised |-> raised, status |-> status,
     resp |-> resp]

\* answers: what the gateway may return to this request.
CallbackNoop(h, param, u, answers) ==
    /\ procs[h] = Idle
    /\ \E ans \in answers :
          /\ ~CallbackReconciles(param, u, ans)
          /\ last' = CallbackLast(CallbackTxId(param, u), ans.raised,
                                  _extract_fedapay_status(ans.tx),
                                  IF ans.raised THEN CallbackExcept("gateway")
                                  ELSE CallbackResponse)
    /\ UNCHANGED <<enrollments, payments, gateway, session, procs>>

\* payment = Payment.objects.filter(transaction_id=str(tx_id)).first()
CallbackStart(h, param, u, answers) ==
    /\ procs[h] = Idle
    /\ \E ans \in answers :
          /\ CallbackReconciles(param, u, ans)
          /\ LET tx_id == CallbackTxId(param, u)
                 pk == Min(PaymentsWith(payments, tx_id))
             IN  procs' = [procs EXCEPT ![h] =
                    [pc |-> "cb_save_payment",
                     req |-> [tx_id |-> tx_id, status |-> _extract_fedapay_status(ans.tx)],
                     pk |-> pk, payment |-> MarkCompleted(payments[pk]), enroll |-> None]]
    /\ UNCHANGED <<enrollments, payments, gateway, session, last>>

CallbackSavePayment(h) == SavePayment(h, "cb_save_payment", "cb_read_enroll")
CallbackReadEnrollment(h) == ReadEnrollment(h, "cb_read_enroll", "cb_save_enroll")

\* await sync_to_async(enroll.save)(), then the success message and redirect
CallbackSaveEnrollment(h) ==
    /\ procs[h].pc = "cb_save_enroll"
    /\ enrollments' = SaveEnrollment(enrollments, procs[h].payment.enrollment, procs[h].enroll)
    /\ last' = CallbackLast(procs[h].req.tx_id, FALSE, procs[h].req.status,
                            CallbackResponse)
    /\ procs' = [procs EXCEPT ![h] = Idle]
    /\ UNCHANGED <<payments, gateway, session>>

(***************************************************************************)
(* fedapay_webhook (POST).                                                 *)
(***************************************************************************)
Forbidden == JsonResponse("forbidden", 403)
Received == JsonResponse("received", 200)
Ignored == JsonResponse("ignored", 200)

\* Variant: the exception leaves the view.
WebhookExceptPropagates(exc) == Unhandled(exc)

\* except Exception as webhook_err: logged, answered 200 ignored
WebhookExcept(exc) == Ignored

\* json.loads(payload) raises on a body that is not JSON text.
JsonLoads(payload) == payload.kind = "json"

\* event_name, status and trans_id as the handler reads them from the event
EventName(e) == e.name
EventStatus(e) == IF e.status # "" THEN e.status ELSE e.entity.status
\* Variant: an event without an id is taken to be about transaction 1.
EventTransIdDefaulted(e) ==
    IF e.id # 0 THEN e.id ELSE IF e.entity.id # 0 THEN e.entity.id ELSE 1

EventTransId(e) == IF e.id # 0 THEN e.id ELSE e.entity.id
EventSuccess(e) == EventStatus(e) = "approved" \/ EventName(e) = "transaction.approved"

\* What the run did: the response, whether json.loads and the connector's
\* fedapay_save_webhook_data ran, and whether the gateway had already had
\* this event acknowledged when the run began.
WebhookLast(req, resp, processed, replay) ==
    [kind |-> "webhook", method |-> "POST", secret |-> Environ(FEDAPAY_AUTH_KEY),
     body |-> req.body, header |-> req.header, resp |-> resp,
     parsed |-> processed, persisted |-> processed, replay |-> replay, raised |-> ""]

\* return HttpResponseForbidden()
HttpResponseForbidden == [code |-> 403, status |-> "", to |-> ""]

\* Variant: the method is not examined; the body is parsed and acknowledged.
WebhookNotPostAccepted(h, method, req) ==
    /\ procs[h] = Idle
    /\ method # "POST"
    /\ last' = [WebhookLast(req, Received, TRUE, FALSE) EXCEPT !.method = method]
    /\ UNCHANGED <<enrollments, payments, gateway, session, procs>>

\* if request.method == 'POST' fails: the view falls through to its last line.
WebhookNotPost(h, method, req) ==
    /\ procs[h] = Idle
    /\ method # "POST"
    /\ last' = [WebhookLast(req, HttpResponseForbidden, FALSE, FALSE)
                  EXCEPT !.method = method]
    /\ UNCHANGED <<enrollments, payments, gateway, session, procs>>

\* compare_digest raises inside verify_signature_fedapay_v1, outside any try.
WebhookVerifyRaises(h, req) ==
    /\ procs[h] = Idle
    /\ verify_signature_fedapay_v1(req.body, req.header) = "TypeError"
    /\ last' = WebhookLast(req, Unhandled("TypeError"), FALSE, FALSE)
    /\ UNCHANGED <<enrollments, payments, gateway, session, procs>>

\* if not verify_signature_fedapay_v1(payload, signature_raw): 403
WebhookForbidden(h, req) ==
    /\ procs[h] = Idle
    /\ verify_signature_fedapay_v1(req.body, req.header) = "False"
    /\ last' = WebhookLast(req, Forbidden, FALSE, FALSE)
    /\ UNCHANGED <<enrollments, payments, gateway, session, procs>>

\* The same refusal in a process whose environment is env.
WebhookForbiddenEnv(h, req, env) ==
    /\ procs[h] = Idle
    /\ verify_signature_with_env(env, req.body, req.header) = "False"
    /\ last' = [WebhookLast(req, Forbidden, FALSE, FALSE) EXCEPT !.secret = env]
    /\ UNCHANGED <<enrollments, payments, gateway, session, procs>>

\* Verified, parsed and persisted; the event is not a success: received.
WebhookReceived(h, req) ==
    /\ procs[h] = Idle
    /\ verify_signature_fedapay_v1(req.body, req.header) = "True"
    /\ JsonLoads(req.body)
    /\ ~EventSuccess(req.body)
    /\ last' = WebhookLast(req, Received, TRUE, FALSE)
    /\ UNCHANGED <<enrollments, payments, gateway, session, procs>>

\* A body json.loads rejects, a success event without a transaction id, or
\* one whose id matches no Payment: get_object_or_404 raises Http404, which
\* `except Exception` catches like any other exception.
WebhookIgnored(h, req) ==
    /\ procs[h] = Idle
    /\ verify_signature_fedapay_v1(req.body, req.header) = "True"
    /\ \/ ~JsonLoads(req.body)
       \/ /\ JsonLoads(req.body)
          /\ EventSuccess(req.body)
          /\ \/ EventTransId(req.body) = 0
             \/ PaymentsWith(payments, Str(EventTransId(req.body))) = {}
    /\ last' = IF JsonLoads(req.body) /\ EventTransId(req.body) = 0
               THEN WebhookLast(req, Ignored, TRUE, FALSE)
               ELSE [WebhookLast(req, WebhookExcept("Exception"), JsonLoads(req.body), FALSE)
                       EXCEPT !.raised = IF JsonLoads(req.body) THEN "Http404"
                                         ELSE "JSONDecodeError"]
    /\ UNCHANGED <<enrollments, payments, gateway, session, procs>>

\* payment = get_object_or_404(Payment, transaction_id=str(trans_id))
WebhookStart(h, req) ==
    /\ procs[h] = Idle
    /\ verify_signature_fedapay_v1(req.body, req.header) = "True"
    /\ JsonLoads(req.body)
    /\ EventSuccess(req.body)
    /\ EventTransId(req.body) # 0
    /\ PaymentsWith(payments, Str(EventTransId(req.body))) # {}
    /\ LET pk == Min(PaymentsWith(payments, Str(EventTransId(req.body))))
       IN  procs' = [procs EXCEPT ![h] =
              [pc |-> "wh_save_payment",
               req |-> [body |-> req.body, header |-> req.header,
                        replay |-> gateway[EventTransId(req.body)].delivered],
               pk |-> pk, payment |-> MarkCompleted(payments[pk]), enroll |-> None]]
    /\ UNCHANGED <<enrollments, payments, gateway, session, last>>

WebhookSavePayment(h) == SavePayment(h, "wh_save_payment", "wh_read_enroll")
WebhookReadEnrollment(h) == ReadEnrollment(h, "wh_read_enroll", "wh_save_enroll")

\* await sync_to_async(enroll.save)(); return JsonResponse({"status": "received"})
\* The gateway notes that the event was acknowledged.
WebhookSaveEnrollment(h) ==
    /\ procs[h].pc = "wh_save_enroll"
    /\ enrollments' = SaveEnrollment(enrollments, procs[h].payment.enrollment, procs[h].enroll)
    /\ last' = WebhookLast(procs[h].req, Received, TRUE, procs[h].req.replay)
    /\ gateway' = [gateway EXCEPT ![EventTransId(procs[h].req.body)].delivered = TRUE]
    /\ procs' = [procs EXCEPT ![h] = Idle]
    /\ UNCHANGED <<payments, session>>

(***************************************************************************)
(* Failing steps: the connector or the database raises.                    *)
(***************************************************************************)
WebhookRunning(h) == procs[h].pc \in {"wh_save_payment", "wh_read_enroll", "wh_save_enroll"}
\* connector.fedapay_save_webhook_data(event_json) raises.
WebhookPersistFails(h, req) ==
    /\ procs[h] = Idle
    /\ verify_signature_fedapay_v1(req.body, req.header) = "True"
    /\ JsonLoads(req.body)
    /\ last' = [WebhookLast(req, WebhookExcept("connector"), TRUE, FALSE)
                  EXCEPT !.persisted = FALSE, !.raised = "connector"]
    /\ UNCHANGED <<enrollments, payments, gateway, session, procs>>

\* payment.save(), the read of payment.enrollment or enroll.save() raises.
WebhookStepFails(h) ==
    /\ WebhookRunning(h)
    /\ last' = [WebhookLast(procs[h].req, WebhookExcept("database"), TRUE,
                            procs[h].req.replay)
                  EXCEPT !.raised = "database"]
    /\ procs' = [procs EXCEPT ![h] = Idle]
    /\ UNCHANGED <<enrollments, payments, gateway, session>>

CallbackStepFails(h) ==
    /\ procs[h].pc \in {"cb_save_payment", "cb_read_enroll", "cb_save_enroll"}
    /\ last' = CallbackLast(procs[h].req.tx_id, TRUE, procs[h].req.status,
                            CallbackExcept("database"))
    /\ procs' = [procs EXCEPT ![h] = Idle]
    /\ UNCHANGED <<enrollments, payments, gateway, session>>

(***************************************************************************)
(* complete_lesson: the learner validates a lesson of a course they follow *)
(* and update_progress recomputes and saves the Enrollment.                *)
(***************************************************************************)
Lessons(c) == {"l1", "l2"}

\* int((done / total_lessons) * 100)
Progress(done, total_lessons) == (done * 100) \div total_lessons

\* Enrollment.update_progress() on the row as complete_lesson read it
update_progress(self) ==
    LET total_lessons == Cardinality(Lessons(self.course))
        done == Cardinality(self.completed_lessons)
    IN  IF total_lessons > 0
        THEN [self EXCEPT !.progress_percentage = Progress(done, total_lessons),
                          !.status = IF Progress(done, total_lessons) = 100
                                     THEN "completed" ELSE self.status]
        ELSE self

complete_lesson(u, lesson) ==
    \E e \in DOMAIN enrollments :
        /\ enrollments[e].student = u
        /\ lesson \in Lessons(enrollments[e].course)
        /\ enrollments[e].status \in {"active", "completed"}
        /\ enrollments' = [enrollments EXCEPT ![e] =
              update_progress([enrollments[e] EXCEPT
                  !.completed_lessons = enrollments[e].completed_lessons \cup {lesson}])]
        /\ UNCHANGED <<payments, gateway, session, procs, last>>

(***************************************************************************)
(* manager_update_payment (POST, valid form): the form's status is saved;  *)
(* a completed Payment activates its Enrollment.  The other fields are     *)
(* submitted as they stand.                                                *)
(***************************************************************************)
PaymentStatuses == {"pending", "completed", "failed", "refunded"}

manager_update_payment(payment_id, status) ==
    /\ payment_id \in DOMAIN payments
    /\ status \in PaymentStatuses
    /\ payments[payment_id].status # status
    /\ payments' = [payments EXCEPT ![payment_id].status = status]
    /\ LET enroll == enrollments[payments[payment_id].enrollment]
       IN  enrollments' =
             IF status = "completed" /\ enroll.status # "active"
             THEN SaveEnrollment(enrollments, payments[payment_id].enrollment,
                                 MarkActive(enroll))
             ELSE enrollments
    /\ UNCHANGED <<gateway, session, procs, last>>

(***************************************************************************)
(* Requests the platform may receive.                                      *)
(***************************************************************************)
\* Query strings of the callback: no parameter, a transaction id under one
\* of the four names, or two names with different ids.
CallbackParams ==
    {Query(None, None, None, None), Query(Str(1), None, None, Str(ForeignTx)),
     Query(EmptyText, None, None, Str(1))}
    \cup {Query(Str(x), None, None, None) : x \in TxIds}
    \cup {Query(None, Str(x), None, None) : x \in 1 .. MaxTx}
    \cup {Query(None, None, Str(x), None) : x \in 1 .. MaxTx}
    \cup {Query(None, None, None, Str(x)) : x \in 1 .. MaxTx}

\* Webhook deliveries by the gateway, and requests of a sender who has seen
\* the gateway's deliveries but does not hold the secret.
Deliveries == Emitted(gateway)
ForeignDelivery ==
    [body |-> ApprovedEvent(ForeignTx),
     header |-> SignedHeader(ApprovedEvent(ForeignTx), EventTime(ForeignTx))]
\* The captured header of one delivery, sent with another body.
Tampered ==
    {[body |-> ApprovedEvent(x), header |-> ForeignDelivery.header] : x \in 1 .. MaxTx}
    \cup {[body |-> BinaryBody, header |-> ForeignDelivery.header]}
\* Headers that are missing, empty, or lack a usable timestamp or signature.
ForeignTime == Str(EventTime(ForeignTx))
ForeignSig == ForeignDelivery.header.parts[2].value
ForgedSig == HexText(Hmac("guess", <<ForeignTime, ForeignDelivery.body>>), FALSE)
BadHeaders ==
    {NoHeader,
     Header(<<>>),
     Header(<<Part(KeyV1, ForeignSig)>>),
     Header(<<Part(KeyT, JunkText), Part(KeyV1, ForeignSig)>>),
     Header(<<Part(KeyT, ForeignTime)>>),
     Header(<<Part(KeyT, ForeignTime), Part(KeyV1, EmptyText)>>),
     Header(<<Part(KeyT, ForeignTime), Part(KeyV1, ForgedSig)>>),
     Header(<<Part(KeyT, ForeignTime), Part(KeyV1, NonAsciiText)>>)}
Unsigned == {[body |-> ForeignDelivery.body, header |-> h] : h \in BadHeaders}
CoreRequests == Deliveries \cup Tampered \cup Unsigned

\* What the gateway may answer to the handler waiting for its link.
LinkResponsesFor(h) ==
    IF procs[h].pc = "mp_link" THEN LinkResponses(procs[h].tx) ELSE {}

EnrollmentIds == 1 .. Cardinality(Students \X Courses)

Next ==
    \/ \E u \in Users, c \in Courses : student_enroll_course(u, c)
    \/ \E h \in PayHandlers, u \in Students, eid \in EnrollmentIds : PayNotFound(h, u, eid)
    \/ \E h \in PayHandlers, u \in Students, eid \in EnrollmentIds : PayCreateFails(h, u, eid)
    \/ \E h \in PayHandlers, u \in Students, eid \in EnrollmentIds : PayCreateTx(h, u, eid)
    \/ \E h \in Handlers : PayCreatePayment(h)
    \/ \E h \in Handlers : PaySetSession(h)
    \/ \E h \in Handlers : \E t \in LinkResponsesFor(h) : PayRedirect(h, t)
    \/ \E h \in Handlers : \E t \in LinkResponsesFor(h) : PayLinkFails(h, t)
    \/ \E x \in 1 .. MaxTx, s \in {"approved", "declined"} : GatewaySettle(x, s)
    \/ \E h \in Handlers, param \in CallbackParams, u \in Students :
          CallbackNoop(h, param, u, CallbackAnswers(param, u))
    \/ \E h \in Handlers, param \in CallbackParams, u \in Students :
          CallbackStart(h, param, u, CallbackAnswers(param, u))
    \/ \E h \in Handlers : CallbackSavePayment(h)
    \/ \E h \in Handlers : CallbackReadEnrollment(h)
    \/ \E h \in Handlers : CallbackSaveEnrollment(h)
    \/ \E h \in Handlers, req \in CoreRequests : WebhookVerifyRaises(h, req)
    \/ \E h \in Handlers, req \in CoreRequests : WebhookForbidden(h, req)
    \/ \E h \in Handlers, req \in CoreRequests : WebhookReceived(h, req)
    \/ \E h \in Handlers, req \in CoreRequests : WebhookIgnored(h, req)
    \/ \E h \in Handlers, req \in CoreRequests : WebhookStart(h, req)
    \/ \E h \in Handlers : WebhookSavePayment(h)
    \/ \E h \in Handlers : WebhookReadEnrollment(h)
    \/ \E h \in Handlers : WebhookSaveEnrollment(h)

Spec == Init /\ [][Next]_vars

Manager == \E pk \in 1 .. MaxTx, s \in PaymentStatuses : manager_update_payment(pk, s)
NextMgr == Next \/ Manager
SpecMgr == Init /\ [][NextMgr]_vars

\* Deliveries in other envelopes and with other header layouts.  For a paid
\* transaction x the gateway may put the status and id at the top level, name
\* the event without an entity status, report the entity as approved under
\* another event name (with or without an envelope status of its own), or
\* send an approved event that carries no id.
Envelopes(x) ==
    {Event("", "approved", x, "", 0),
     Event("transaction.approved", "", 0, "", x),
     Event("transaction.updated", "", 0, "approved", x),
     Event("transaction.updated", "pending", 0, "approved", x),
     Event("transaction.approved", "", 0, "approved", 0)}
EnvelopeDeliveries ==
    UNION {{[body |-> b, header |-> SignedHeader(b, EventTime(x))] : b \in Envelopes(x)} :
             x \in {y \in 1 .. MaxTx : GatewayKnows(gateway, y)
                                         /\ GatewayStatus(gateway, y) = "approved"}}
\* The signature of one delivery under v0, under v1 beside a v0, in upper
\* case, as bare hex text, and beside or behind a part with another key.
KeySig == KeyText("sig")
HeaderLayouts ==
    {Header(<<Part(KeyT, ForeignTime), Part(KeyV0, ForeignSig)>>),
     Header(<<Part(KeyT, ForeignTime), Part(KeyV1, ForeignSig), Part(KeyV0, ForgedSig)>>),
     Header(<<Part(KeyT, ForeignTime), Part(KeyV0, ForgedSig), Part(KeyV1, ForeignSig)>>),
     Header(<<Part(KeyT, ForeignTime), Part(KeyV1, [ForeignSig EXCEPT !.upper = TRUE])>>),
     Header(<<Part(KeyT, ForeignTime), Part(ForeignSig, EmptyText)>>),
     Header(<<Part(KeyT, ForeignTime), Part(KeySig, JunkText)>>),
     Header(<<Part(KeyT, ForeignTime), Part(KeySig, JunkText), Part(KeyV0, ForeignSig)>>)}
LayoutDeliveries == {[body |-> ForeignDelivery.body, header |-> h] : h \in HeaderLayouts}

\* At most one such delivery is in flight.
EnvelopeHandlers == {"h2"}
NextEnvelopes ==
    \/ Next
    \/ \E h \in EnvelopeHandlers, req \in EnvelopeDeliveries : WebhookReceived(h, req)
    \/ \E h \in EnvelopeHandlers, req \in EnvelopeDeliveries : WebhookIgnored(h, req)
    \/ \E h \in EnvelopeHandlers, req \in EnvelopeDeliveries : WebhookStart(h, req)
SpecEnvelopes == Init /\ [][NextEnvelopes]_vars

NextLayouts ==
    \/ Next
    \/ \E h \in Handlers, req \in LayoutDeliveries : WebhookForbidden(h, req)
    \/ \E h \in Handlers, req \in LayoutDeliveries : WebhookIgnored(h, req)
SpecLayouts == Init /\ [][NextLayouts]_vars

\* The core operations with requests to the webhook under other methods.
OtherMethods == {"GET", "PUT"}
NextMethods ==
    \/ Next
    \/ \E h \in Handlers, method \in OtherMethods, req \in CoreRequests :
          WebhookNotPost(h, method, req)
SpecMethods == Init /\ [][NextMethods]_vars

\* The core operations with enrollment requests served by workers that run
\* side by side.
NextEnroll ==
    \/ Next
    \/ \E h \in Handlers, u \in Users, c \in Courses : EnrollCheck(h, u, c)
    \/ \E h \in Handlers : EnrollCreate(h)
    \/ \E h \in Handlers : EnrollCreateFails(h)
SpecEnroll == Init /\ [][NextEnroll]_vars

\* The core operations with learners who follow their lessons.
AllLessons == UNION {Lessons(c) : c \in Courses}
NextLessons ==
    \/ Next
    \/ \E u \in Students, lesson \in AllLessons : complete_lesson(u, lesson)
SpecLessons == Init /\ [][NextLessons]_vars

\* The core operations with a course whose fee is not a whole amount.
FeeStudents == {"s1"}
NextFees ==
    \/ Next
    \/ \E u \in FeeStudents, c \in FractionalCourses : student_enroll_course(u, c)
SpecFees == Init /\ [][NextFees]_vars

\* One delivery of the gateway with its timestamp written in other ways: with
\* a plus sign, and with leading zeros.
TimestampTexts(ts) == {NumText("", 0, ts), NumText("+", 0, ts), NumText("", 2, ts)}
TimestampDeliveries ==
    {[body |-> ForeignDelivery.body,
      header |-> Header(<<Part(KeyT, t), Part(KeyV1, ForeignSig)>>)] :
        t \in TimestampTexts(EventTime(ForeignTx)) \ {ForeignTime}}
NextTimestamps ==
    \/ Next
    \/ \E h \in Handlers, req \in TimestampDeliveries : WebhookIgnored(h, req)
SpecTimestamps == Init /\ [][NextTimestamps]_vars

\* The core operations with deliveries that reach a process started without
\* the signing key: the variable not set, empty, or blank.  A sender who
\* knows this signs with the blank key itself.
UnsetEnvirons == {NoEnviron, Environ(""), Environ(" ")}
SignedWith(key, body, ts) ==
    Header(<<Part(KeyT, Str(ts)),
             Part(KeyV1, HexText(Hmac(key, <<Str(ts), body>>), FALSE))>>)
BlankSigned ==
    {[body |-> ApprovedEvent(x), header |-> SignedWith(k, ApprovedEvent(x), EventTime(x))] :
        x \in 1 .. MaxTx, k \in {"", " "}}
UnsetRequests == CoreRequests \cup BlankSigned
NextUnset ==
    \/ Next
    \/ \E h \in Handlers, req \in UnsetRequests, env \in UnsetEnvirons :
          WebhookForbiddenEnv(h, req, env)
SpecUnset == Init /\ [][NextUnset]_vars

\* The core operations with steps that may fail.
NextFail ==
    \/ Next
    \/ \E h \in Handlers, req \in CoreRequests : WebhookPersistFails(h, req)
    \/ \E h \in Handlers : WebhookStepFails(h)
    \/ \E h \in Handlers : CallbackStepFails(h)
SpecFail == Init /\ [][NextFail]_vars

\* The core operations with a gateway that may refund a paid transaction.
Refund == \E x \in 1 .. MaxTx : GatewayRefund(x)
NextRefund == Next \/ Refund
SpecRefund == Init /\ [][NextRefund]_vars

\* The core operations with a gateway whose status vocabulary is not
\* normalised.
NextAnyWord ==
    \/ Next
    \/ \E h \in Handlers, param \in CallbackParams, u \in Students :
          CallbackNoop(h, param, u, CallbackAnswersAnyWord(param, u))
    \/ \E h \in Handlers, param \in CallbackParams, u \in Students :
          CallbackStart(h, param, u, CallbackAnswersAnyWord(param, u))
SpecAnyWord == Init /\ [][NextAnyWord]_vars

(***************************************************************************)
(* Fairness: the event loop runs every awaited step of a handler that has  *)
(* begun.  Arrivals of requests are not forced.                            *)
(***************************************************************************)
HandlerStep(h) ==
    \/ PayCreatePayment(h)
    \/ PaySetSession(h)
    \/ \E t \in LinkResponsesFor(h) : PayRedirect(h, t) \/ PayLinkFails(h, t)
    \/ CallbackSavePayment(h)
    \/ CallbackReadEnrollment(h)
    \/ CallbackSaveEnrollment(h)
    \/ WebhookSavePayment(h)
    \/ WebhookReadEnrollment(h)
    \/ WebhookSaveEnrollment(h)

FairSpec == Spec /\ \A h \in Handlers : WF_vars(HandlerStep(h))

(***************************************************************************)
(* Properties.                                                             *)
(***************************************************************************)
AllBodies ==
    {ApprovedEvent(x) : x \in TxIds} \cup {DeclinedEvent(x) : x \in TxIds}
    \cup {BinaryBody}

\* The run recorded in l is a webhook whose signature verified.
Verified(l) ==
    /\ l.kind = "webhook"
    /\ verify_signature_fedapay_v1(l.body, l.header) = "True"
\* ... of a success event carrying transaction id x
VerifiedSuccess(l, x) ==
    /\ Verified(l)
    /\ JsonLoads(l.body)
    /\ EventSuccess(l.body)
    /\ EventTransId(l.body) = x
Reconciling(h) == procs[h].pc \in {"wh_save_payment", "wh_read_enroll", "wh_save_enroll",
                                   "cb_save_payment", "cb_read_enroll", "cb_save_enroll"}
Reconciled(pk) ==
    /\ pk \in DOMAIN payments
    /\ payments[pk].status = "completed"
    /\ enrollments[payments[pk].enrollment].status = "active"

\* C1: a webhook whose header is the signature header of some body B, sent
\* with a body other than B, is answered 403 forbidden and changes no
\* Payment and no Enrollment.
C1_HeaderOfOtherBody(l) ==
    /\ l.kind = "webhook"
    /\ \E b \in AllBodies :
          b # l.body /\ verify_signature_fedapay_v1(b, l.header) = "True"
C1_TamperedBodyRejected ==
    [][(last' # last /\ C1_HeaderOfOtherBody(last'))
         => (last'.resp = Forbidden /\ UNCHANGED <<payments, enrollments>>)]_vars
C1_Witness ==
    /\ C1_HeaderOfOtherBody(last)
    /\ last.body = ApprovedEvent(1)
    /\ last.resp = Forbidden
    /\ PaymentsWith(payments, Str(1)) # {}

\* C2: a webhook whose signature header is missing, has no timestamp, a
\* non-integer timestamp or no signature value, or carries a signature that
\* differs from the computed one, is answered 403 forbidden, is neither
\* parsed nor persisted, and changes no Payment and no Enrollment.
C2_BadSignature(l) ==
    /\ l.kind = "webhook"
    /\ LET parsed == _parse_fedapay_signature_header(l.header)
       IN  \/ ~l.header.present
           \/ ~Truthy(parsed.timestamp)
           \/ ~IsInt(parsed.timestamp)
           \/ ~Truthy(parsed.signature_v1)
           \/ Lower(parsed.signature_v1) #
                Lower(_compute_fedapay_signature(l.body, IntOf(parsed.timestamp),
                                                 Strip(FEDAPAY_AUTH_KEY)))
C2_BadSignatureForbidden ==
    [][(last' # last /\ C2_BadSignature(last'))
         => /\ last'.resp = Forbidden
            /\ ~last'.parsed /\ ~last'.persisted
            /\ UNCHANGED <<payments, enrollments>>]_vars

\* C3: after a verified success webhook whose transaction id matches a
\* Payment has returned, the response is 200 received, that Payment is
\* completed and its Enrollment is active.
C3_WebhookCompletes ==
    \A x \in 1 .. MaxTx :
        (VerifiedSuccess(last, x) /\ PaymentsWith(payments, Str(x)) # {})
          => /\ last.resp = Received
             /\ \A pk \in PaymentsWith(payments, Str(x)) : Reconciled(pk)
C3_Witness ==
    /\ VerifiedSuccess(last, 1)
    /\ last.resp = Received
    /\ \E pk \in PaymentsWith(payments, Str(1)) : Reconciled(pk)

C5_UnknownWebhook(l) ==
    /\ Verified(l)
    /\ JsonLoads(l.body)
    /\ EventSuccess(l.body)
    /\ EventTransId(l.body) # 0
    /\ PaymentsWith(payments, Str(EventTransId(l.body))) = {}
C5_UnknownCallback(l) ==
    /\ l.kind = "callback"
    /\ Truthy(l.tx_id)
    /\ PaymentsWith(payments, l.tx_id) = {}
C5_UnknownTransaction ==
    [][(last' # last /\ (C5_UnknownWebhook(last') \/ C5_UnknownCallback(last')))
         => /\ UNCHANGED <<payments, enrollments>>
            /\ (C5_UnknownWebhook(last') => last'.resp.code = 404)
            /\ (C5_UnknownCallback(last') => last'.resp = CallbackResponse)]_vars

\* C6: under the core operations, in every state (between the saves of a
\* handler included), an active Enrollment has a completed Payment.
C6_ActiveHasCompletedPayment ==
    \A e \in DOMAIN enrollments :
        enrollments[e].status = "active"
          => \E pk \in DOMAIN payments :
                payments[pk].enrollment = e /\ payments[pk].status = "completed"
C6_Witness ==
    \E e \in DOMAIN enrollments :
        /\ enrollments[e].status = "active"
        /\ \E pk \in DOMAIN payments :
              payments[pk].enrollment = e /\ payments[pk].status = "completed"

\* C7: with manager_update_payment among the operations, still no Enrollment
\* is active without a completed Payment.
C7_ActiveHasCompletedPaymentWithManager ==
    \A e \in DOMAIN enrollments :
        enrollments[e].status # "active"
          \/ \E pk \in DOMAIN payments :
                payments[pk].enrollment = e /\ payments[pk].status = "completed"

\* C8: a step of a callback, webhook or payment handler changes the status
\* of a Payment only from pending to completed.
C8_OnlyPendingToCompleted ==
    [][procs' # procs
         => \A pk \in DOMAIN payments :
               payments'[pk].status # payments[pk].status
                 => /\ payments[pk].status = "pending"
                    /\ payments'[pk].status = "completed"]_vars

\* C9: two reconciliation handlers running at once on the same Payment (two
\* webhooks, or a webhook and a callback) both return, and when each returns
\* the Payment is completed and its Enrollment active.
Racing(h, g, pk) ==
    /\ Reconciling(h) /\ Reconciling(g)
    /\ WebhookRunning(h) \/ WebhookRunning(g)
    /\ procs[h].pk = pk /\ procs[g].pk = pk
C9_RaceConverges ==
    \A h \in Handlers : \A g \in Handlers \ {h} : \A pk \in 1 .. MaxTx :
        Racing(h, g, pk) ~> (procs[h] = Idle /\ Reconciled(pk))
C9_Witness ==
    \E h \in Handlers : \E g \in Handlers \ {h} :
        /\ Racing(h, g, 1)
        /\ procs[h].pc = "wh_save_enroll"
        /\ procs[g].pc = "cb_save_payment"
        /\ payments[1].status = "completed"

\* C10: when student_make_payment returns the redirect to the gateway, the
\* Payment of the new transaction is already stored: exactly one row with
\* that transaction id, for the requested Enrollment, with the course fee,
\* pending; and every transaction a payer can reach has its Payment row.
PaymentRowFor(l) ==
    /\ Cardinality(PaymentsWith(payments, Str(l.tx))) = 1
    /\ \A pk \in PaymentsWith(payments, Str(l.tx)) :
          /\ payments[pk].enrollment = l.enrollment
          /\ payments[pk].amount = CourseFee(enrollments[l.enrollment].course)
          /\ payments[pk].status = "pending"
          /\ enrollments[l.enrollment].student = l.user
Redirected(l) == l.kind = "pay" /\ l.resp.code = 302 /\ l.resp.status = ""
C10_PaymentStoredBeforeRedirect ==
    /\ [][(last' # last /\ Redirected(last')) => PaymentRowFor(last')]_vars
    /\ [](\A x \in DOMAIN gateway :
             gateway[x].linked => Cardinality(PaymentsWith(payments, Str(x))) = 1)
C10_Witness ==
    /\ Redirected(last)
    /\ gateway[last.tx].linked
    /\ Cardinality(PaymentsWith(payments, Str(last.tx))) = 1

\* C11: when create_transaction raises, student_make_payment creates no
\* Payment, changes no Enrollment, has called the gateway once, and answers
\* with the error message and the redirect to the student dashboard.
C11_CreateRaised(l) == l.kind = "pay" /\ l.raised = "create_transaction"
C11_GatewayErrorSurfaces ==
    [][(last' # last /\ C11_CreateRaised(last'))
         => /\ UNCHANGED <<payments, enrollments, gateway>>
            /\ last'.calls = 1
            /\ last'.resp = RedirectError("student_dashboard")]_vars
C11_Witness ==
    /\ C11_CreateRaised(last)
    /\ last.resp = RedirectError("student_dashboard")
    /\ enrollments # <<>>
    /\ payments = <<>>

\* C12: the redirect goes to the first non-empty of url, payment_link, link
\* of the link response, for a mapping and for a token object alike; with
\* none of the three the view ends with the error outcome.
C12_FirstInOrder(t) == Or(t.url, Or(t.payment_link, t.link))
C12_FixedOrderResolution ==
    [][(last' # last /\ last'.kind = "pay" /\ last'.token # NoToken)
         => IF Truthy(C12_FirstInOrder(last'.token))
            THEN last'.resp = Redirect(C12_FirstInOrder(last'.token))
            ELSE last'.resp = RedirectError("student_dashboard")]_vars

\* C13: when an Enrollment was activated by the callback alone (no success
\* webhook acknowledged or in progress for its transaction) and a verified
\* webhook for that transaction then reports a status that is not a success,
\* the Enrollment is not active once that webhook has returned.
C13_CallbackOnly(x) ==
    /\ x \in DOMAIN gateway
    /\ ~gateway[x].delivered
    /\ \A h \in Handlers : ~WebhookRunning(h)
    /\ \E pk \in PaymentsWith(payments, Str(x)) :
          enrollments[payments[pk].enrollment].status = "active"
C13_WebhookOverridesCallback ==
    [][(/\ last' # last
        /\ Verified(last')
        /\ JsonLoads(last'.body)
        /\ ~EventSuccess(last'.body)
        /\ C13_CallbackOnly(EventTransId(last'.body)))
         => \A pk \in PaymentsWith(payments, Str(EventTransId(last'.body))) :
               enrollments'[payments[pk].enrollment].status # "active"]_vars

\* C14: a callback run marks the Payment of its transaction id completed and
\* the Enrollment active when the status it extracted is approved, completed
\* or success; a run with any other status, without an id, or whose gateway
\* call raised, changes no Payment and no Enrollment.
C14_Allowed(status) == status \in {"approved", "completed", "success"}
C14_CallbackAllowList ==
    /\ [](( /\ last.kind = "callback"
             /\ C14_Allowed(last.status)
             /\ ~last.raised
             /\ Truthy(last.tx_id) )
            => \A pk \in PaymentsWith(payments, last.tx_id) : Reconciled(pk))
    /\ [][(last' # last /\ last'.kind = "callback"
            /\ (~C14_Allowed(last'.status) \/ last'.raised \/ ~Truthy(last'.tx_id)))
             => UNCHANGED <<payments, enrollments>>]_vars
    /\ [][\A h \in Handlers :
             (procs[h].pc \in {"cb_save_payment", "cb_read_enroll", "cb_save_enroll"}
              /\ procs'[h] # procs[h])
               => C14_Allowed(procs[h].req.status)]_vars
C14_Witness ==
    /\ last.kind = "callback"
    /\ last.status = "success"
    /\ \E pk \in PaymentsWith(payments, last.tx_id) : Reconciled(pk)

\* C15: a verified event is treated as successful exactly when its top-level
\* status is approved, or its name is transaction.approved, or its entity's
\* status is approved; an event that is not successful changes no Payment
\* and no Enrollment and is answered 200 received.
C15_Success(e) ==
    e.status = "approved" \/ e.name = "transaction.approved" \/ e.entity.status = "approved"
\* The run that ends in this step answered without entering the success branch.
C15_NotTreatedAsSuccess ==
    /\ last'.resp = Received
    /\ \A h \in Handlers : ~(procs[h].pc = "wh_save_enroll" /\ procs'[h] = Idle)
C15_SuccessAllowList ==
    [][(last' # last /\ Verified(last') /\ JsonLoads(last'.body))
         => /\ C15_Success(last'.body) => ~C15_NotTreatedAsSuccess
            /\ ~C15_Success(last'.body)
                 => (C15_NotTreatedAsSuccess /\ UNCHANGED <<payments, enrollments>>)]_vars

\* C16: a verified success event with neither a top-level id nor an entity
\* id is answered 200 ignored and changes no Payment and no Enrollment.
C16_NoId(l) ==
    /\ Verified(l)
    /\ JsonLoads(l.body)
    /\ EventSuccess(l.body)
    /\ l.body.id = 0 /\ l.body.entity.id = 0
C16_NoIdIgnored ==
    [][(last' # last /\ C16_NoId(last'))
         => (last'.resp = Ignored /\ UNCHANGED <<payments, enrollments>>)]_vars
C16_Witness ==
    /\ C16_NoId(last)
    /\ last.resp = Ignored
    /\ \E pk \in DOMAIN payments : payments[pk].status = "pending"

\* C19: the parser returns the value of t as timestamp and, as signature,
\* the value of v1 when there is one, else the value of v0, else the first
\* 64-hex text of the header, else nothing.
RECURSIVE C19_ValueOf(_, _)
C19_ValueOf(parts, k) ==
    IF parts = <<>> THEN None
    ELSE IF Head(parts).key = k THEN Head(parts).value
    ELSE C19_ValueOf(Tail(parts), k)
C19_Signature(parts) ==
    IF Truthy(C19_ValueOf(parts, KeyV1)) THEN C19_ValueOf(parts, KeyV1)
    ELSE IF Truthy(C19_ValueOf(parts, KeyV0)) THEN C19_ValueOf(parts, KeyV0)
    ELSE FirstHex(parts)
C19_HeaderParsedByKey ==
    last.kind = "webhook"
      => LET parsed == _parse_fedapay_signature_header(last.header)
         IN  /\ parsed.timestamp = C19_ValueOf(last.header.parts, KeyT)
             /\ Truthy(parsed.signature_v1) = Truthy(C19_Signature(last.header.parts))
             /\ Truthy(parsed.signature_v1)
                  => parsed.signature_v1 = C19_Signature(last.header.parts)

\* C20: the expected signature is the hex HMAC-SHA256, under the secret, of
\* "<timestamp>.<body>": it differs as soon as the timestamp, the body or
\* the secret differs, and a delivery is accepted exactly when its signature
\* is that text in either letter case.
C20_Times == {EventTime(x) : x \in TxIds}
C20_Bodies == AllBodies \ {BinaryBody}
C20_Secrets == {Strip(FEDAPAY_AUTH_KEY), "guess"}
C20_Inputs == C20_Times \X C20_Bodies \X C20_Secrets
C20_Accepted(l) == l.resp.code = 200
C20_SignatureBindsAll ==
    /\ \A i \in C20_Inputs :
          /\ _compute_fedapay_signature(i[2], i[1], i[3])
               = HexText(Hmac(i[3], <<Str(i[1]), i[2]>>), FALSE)
          /\ \A j \in C20_Inputs :
                i # j => _compute_fedapay_signature(i[2], i[1], i[3])
                           # _compute_fedapay_signature(j[2], j[1], j[3])
    /\ (last.kind = "webhook" /\ JsonLoads(last.body))
          => LET parsed == _parse_fedapay_signature_header(last.header)
             IN  C20_Accepted(last)
                   <=> /\ IsInt(parsed.timestamp)
                       /\ parsed.signature_v1.kind = "hex"
                       /\ parsed.signature_v1.mac
                            = Hmac(Strip(FEDAPAY_AUTH_KEY),
                                   <<Str(IntOf(parsed.timestamp)), last.body>>)
C20_Witness ==
    /\ last.kind = "webhook"
    /\ C20_Accepted(last)
    /\ last.header.parts[2].value.kind = "hex"
    /\ last.header.parts[2].value.upper

\* C17: once the signature has verified, the webhook answers 200 received
\* or 200 ignored, and 200 ignored whenever parsing, the connector or a save
\* raised: no exception leaves the handler.
C17_ExceptionsAcknowledged ==
    [][(last' # last /\ Verified(last'))
         => /\ last'.resp \in {Received, Ignored}
            /\ (last'.raised # "" \/ ~JsonLoads(last'.body)) => last'.resp = Ignored]_vars
C17_Witness ==
    /\ Verified(last)
    /\ last.raised = "database"
    /\ last.resp = Ignored
    /\ \E pk \in DOMAIN payments :
          /\ payments[pk].status = "completed"
          /\ enrollments[payments[pk].enrollment].status = "pending"

\* C18: every run of the callback ends with the success message and the
\* redirect to the course list, whatever the gateway answered, whatever the
\* lookup found and whatever was raised during the check.
C18_CallbackAlwaysConfirms ==
    [][(last' # last /\ last'.kind = "callback")
         => last'.resp = RedirectSuccess("student_view_courses")]_vars
C18_Witness ==
    /\ last.kind = "callback"
    /\ last.raised
    /\ last.status = "approved"
    /\ last.resp = RedirectSuccess("student_view_courses")
    /\ \E pk \in PaymentsWith(payments, last.tx_id) : ~Reconciled(pk)

\* C21: a request to the webhook whose method is not POST is answered 403;
\* its signature is not verified, its body is neither parsed nor persisted,
\* and no Payment and no Enrollment changes, even when the request carries a
\* delivery the gateway signed.
C21_NotPost(l) == l.kind = "webhook" /\ l.method # "POST"
C21_OnlyPost ==
    [][(last' # last /\ C21_NotPost(last'))
         => /\ last'.resp.code = 403
            /\ ~last'.parsed /\ ~last'.persisted
            /\ UNCHANGED <<payments, enrollments, procs>>]_vars
C21_Witness ==
    /\ C21_NotPost(last)
    /\ last.resp.code = 403
    /\ verify_signature_fedapay_v1(last.body, last.header) = "True"
    /\ JsonLoads(last.body) /\ EventSuccess(last.body)
    /\ \E pk \in PaymentsWith(payments, Str(EventTransId(last.body))) :
          payments[pk].status = "pending"

\* C22: in every state there is at most one Enrollment for a student and a
\* course, also when two enrollment requests of the same student for the
\* same course both pass the existence check before either inserts.
C22_OnePerPair ==
    \A i \in DOMAIN enrollments : \A j \in DOMAIN enrollments :
        (enrollments[i].student = enrollments[j].student
         /\ enrollments[i].course = enrollments[j].course) => i = j
C22_Witness ==
    /\ last.kind = "enroll"
    /\ last.resp = Unhandled("IntegrityError")
    /\ Cardinality({i \in DOMAIN enrollments :
                       enrollments[i].student = last.user
                       /\ enrollments[i].course = last.course}) = 1

\* C23: a payment request naming an Enrollment of another learner ends in
\* not-found with no gateway call and no new Payment; every gateway
\* transaction and every Payment is created for an Enrollment of the
\* requesting user.
C23_Foreign(eid, u) == eid \in DOMAIN enrollments /\ enrollments[eid].student # u
C23_OwnEnrollmentOnly ==
    /\ [][(last' # last /\ last'.kind = "pay"
            /\ C23_Foreign(last'.enrollment, last'.user))
             => /\ last'.resp = Http404
                /\ last'.calls = 0
                /\ UNCHANGED <<payments, gateway>>]_vars
    /\ [][Len(gateway') > Len(gateway)
             => \E h \in Handlers :
                   /\ procs'[h].pc = "mp_create_payment"
                   /\ procs'[h].tx = Len(gateway')
                   /\ enrollments[procs'[h].enrollment].student = procs'[h].user]_vars
    /\ [][Len(payments') > Len(payments)
             => \E h \in Handlers :
                   /\ procs[h].pc = "mp_create_payment"
                   /\ payments'[Len(payments')].enrollment = procs[h].enrollment
                   /\ enrollments[procs[h].enrollment].student = procs[h].user]_vars
C23_Witness ==
    /\ last.kind = "pay"
    /\ C23_Foreign(last.enrollment, last.user)
    /\ last.resp = Http404
    /\ payments = <<>> /\ gateway = <<>>

\* C24: a step of the callback or of the webhook changes the status of an
\* Enrollment only from pending to active; an Enrollment that is completed
\* or dropped keeps its status, also under a replayed success webhook.
C24_OnlyPendingToActive ==
    [][procs' # procs
         => \A e \in DOMAIN enrollments :
               enrollments'[e].status # enrollments[e].status
                 => /\ enrollments[e].status = "pending"
                    /\ enrollments'[e].status = "active"]_vars

\* C26: when complete_lesson saves its update between a reconciliation
\* handler's read of the Enrollment and that handler's save, the Enrollment
\* the handler leaves has the progress update_progress computed and, at 100,
\* the status completed.
C26_SavingEnrollment(h) ==
    /\ procs[h].pc \in {"wh_save_enroll", "cb_save_enroll"}
    /\ procs'[h] = Idle
C26_UpdatedSinceRead(h) ==
    enrollments[procs[h].payment.enrollment].progress_percentage
      # procs[h].enroll.progress_percentage
C26_NoLostUpdate ==
    [][\A h \in Handlers :
          (C26_SavingEnrollment(h) /\ C26_UpdatedSinceRead(h))
            => LET row == enrollments'[procs[h].payment.enrollment]
                   computed == Progress(Cardinality(row.completed_lessons),
                                        Cardinality(Lessons(row.course)))
               IN  /\ row.progress_percentage = computed
                   /\ computed = 100 => row.status = "completed"]_vars

\* C25: when a run of the webhook or of the callback returns, also after a
\* save raised an exception the handler swallowed, it has not left its
\* Payment completed with the Enrollment still pending.
C25_AllOrNothing ==
    [][\A h \in Handlers :
          (Reconciling(h) /\ procs'[h] = Idle)
            => ~(/\ payments'[procs[h].pk].status = "completed"
                 /\ enrollments'[procs[h].payment.enrollment].status = "pending")]_vars

\* C27: a payment request that found its Enrollment ends either with a
\* Payment row created and the redirect to the gateway, or with the error
\* redirect to the dashboard and neither a Payment row nor a session
\* transaction id of this run left behind.
C27_Created(l) == l.tx # 0 /\ PaymentsWith(payments', Str(l.tx)) # {}
C27_TwoOutcomes ==
    [][(last' # last /\ last'.kind = "pay" /\ last'.raised # "Http404")
         => \/ /\ Redirected(last')
               /\ C27_Created(last')
            \/ /\ last'.resp = RedirectError("student_dashboard")
               /\ ~C27_Created(last')
               /\ last'.tx # 0
                    => session'[last'.user].last_fedapay_tx_id # Str(last'.tx)]_vars

\* C28: the amount stored in a Payment is the amount that was sent to the
\* gateway for its transaction, also for a fee with a fractional part.
C28_AmountsAgree ==
    \A pk \in DOMAIN payments :
        LET x == IntOf(payments[pk].transaction_id)
        IN  x \in DOMAIN gateway => payments[pk].amount = gateway[x].amount * 100

\* C29: the signature is bound to the timestamp text of the header: when a
\* delivery was accepted, the same body and signature under a header whose
\* t is a different text is not accepted.
C29_Retimed(l, t) ==
    Header(<<Part(KeyT, t),
             Part(KeyV1, _parse_fedapay_signature_header(l.header).signature_v1)>>)
C29_TimestampTextBound ==
    (last.kind = "webhook" /\ last.resp.code = 200)
      => LET timestamp == _parse_fedapay_signature_header(last.header).timestamp
         IN  \A t \in TimestampTexts(IntOf(timestamp)) :
                t # timestamp
                  => verify_signature_fedapay_v1(last.body, C29_Retimed(last, t)) # "True"

\* C30: with the signing key not set, empty or blank, verification returns
\* False for every body and header, a header signed with the blank key
\* included; every POST to the webhook is answered 403 and no Payment and
\* no Enrollment changes.
C30_Unset(l) == l.kind = "webhook" /\ l.method = "POST" /\ l.secret \in UnsetEnvirons
C30_FailsClosed ==
    /\ [](\A env \in UnsetEnvirons : \A req \in UnsetRequests :
             verify_signature_with_env(env, req.body, req.header) = "False")
    /\ [][(last' # last /\ C30_Unset(last'))
             => /\ last'.resp = Forbidden
                /\ UNCHANGED <<payments, enrollments, procs>>]_vars
C30_Witness ==
    /\ C30_Unset(last)
    /\ last.secret = Environ(" ")
    /\ last.header = SignedWith(" ", last.body, EventTime(1))
    /\ last.resp = Forbidden
    /\ \E pk \in PaymentsWith(payments, Str(EventTransId(last.body))) :
          payments[pk].status = "pending"

====
